---- MODULE Spec2Model ----
(***************************************************************************)
(* The project_ref source plugin (bst_external/sources/project_ref.py):    *)
(* a content-addressed mirror of a project-local file or directory.        *)
(*                                                                         *)
(* Every process of Procs is one ProjectRefSource instance running in its  *)
(* own operating-system process; all of them share one mirror directory.   *)
(* A call of fetch or track is cut at its file-system operations, which    *)
(* are the points where another process (or a reader) can observe the      *)
(* mirror directory: copy, hash, exists, rmtree (listing, one unlink per   *)
(* member, rmdir) and rename.                                              *)
(***************************************************************************)
EXTENDS Integers, Sequences, FiniteSets, TLC

VARIABLES
    live,      \* project directory: subject path -> tree found there
    mirror,    \* mirror directory: name -> entry (DOMAIN = the names that exist)
    pc,        \* per process: position inside fetch/track
    op,        \* per process: the call in progress or last finished
    path,      \* per process: self.path
    ref,       \* per process: self.ref (None or a digest)
    td,        \* per process: the tempdir() of the call exists
    target,    \* per process: what lies at `targetdir` inside td
    sha,       \* per process: the digest _generate_ref returned in this call
    todo,      \* per process: members rmtree has listed and not yet unlinked
    result,    \* per process: how the call just finished ended
    warned,    \* per process: the call just finished emitted self.warn
    cons,      \* per process: what get_consistency has just returned
    touched,   \* per process: the call has changed the mirror directory
    overlap,   \* per process: the call ran while another process was in a call
    calls,     \* number of fetch and track calls begun so far
    sub,       \* digest computation: the two subjects handed to _generate_ref
    dig,       \* digest computation: what _generate_ref returned for each
    subject,   \* staging: self.path and the tree at self.fullpath
    directory, \* staging: the destination: name -> what lies there
    given,     \* staging: what the destination held when stage was called
    spc,       \* staging: position inside stage
    files,     \* staging: the members the chmod loop has still to visit
    sres,      \* staging: how stage ended
    chmoded,   \* staging: the names os.chmod has been called on
    compression,        \* tar element: self.compression
    include_checksums,  \* tar element: self.include_checksums
    tpc,       \* tar element: position in configure, preflight, assemble
    tarball,   \* tar element: the tarball is absent, open or closed
    hashes,    \* tar element: checksum type -> state of tarball it was fed
    written,   \* tar element: checksum type -> times its side file was written
    terr       \* tar element: the exception that ended the lifecycle

\* The variables of the digest computation taken alone
digestVars == <<sub, dig>>

stageVars == <<subject, directory, given, spc, files, sres, chmoded>>

tarVars == <<compression, include_checksums, tpc, tarball, hashes, written,
             terr>>

aux == <<digestVars, stageVars, tarVars>>

vars == <<live, mirror, pc, op, path, ref, td, target, sha, todo, result,
          warned, cons, touched, overlap, calls, aux>>

----------------------------------------------------------------------------
(* Bounds *)

\* fetch and track calls begun in one behaviour, over all processes
MaxCalls == 3

\* The longest include-checksums list of a tar element
MaxChecksums == 2

----------------------------------------------------------------------------
(* The universe of subjects *)

Procs == {"p1", "p2"}

None == "None"

DirPath == "sally"
FilePath == "files/bob.txt"
RootFilePath == "bob.txt"
Paths == {DirPath, FilePath, RootFilePath}

\* os.path.split(self.path)[0]
Dirname(pth) == IF pth = FilePath THEN "files" ELSE ""

Datas == {"x", "y"}

NoTree == [kind |-> "none"]
File(d) == [kind |-> "file", data |-> d]
Dir(m) == [kind |-> "dir", members |-> m]

\* A symbolic link member: the text of its target, and what the target is
\* when it is followed ("none" if it dangles, "file" or "dir")
Link(text, to) == [kind |-> "link", data |-> text, to |-> to]

\* An empty directory, which list_relative_paths lists as a member
EmptyDir == [kind |-> "dir"]

\* The member names of a directory, in the order list_relative_paths yields them.
RelOrder == <<"a", "ab", "b", "d", "d/f", "l">>

DirContents == { [a |-> File("x"), b |-> File("x")], [a |-> File("y")] }

Contents(pth) ==
    IF pth = DirPath THEN { Dir(m) : m \in DirContents }
    ELSE { File(d) : d \in Datas }

----------------------------------------------------------------------------
(* Digests.  SHA-256 is modelled as an injective tagging of its input.     *)

Sha256Hex(s) == "sha(" \o s \o ")"

\* utils.list_relative_paths(fullpath): the members in sorted order
ListRelativePaths(t) == SelectSeq(RelOrder, LAMBDA r : r \in DOMAIN t.members)

\* os.path.isdir(filename): true of a directory and, as it follows
\* symbolic links, of a link whose target is a directory
IsDir(m) == m.kind = "dir" \/ (m.kind = "link" /\ m.to = "dir")

\* unique_key(filename)
unique_key(m) ==
    IF IsDir(m) THEN "0"
    ELSE IF m.kind = "link" THEN m.data
    ELSE Sha256Hex(m.data)

RECURSIVE Feed(_, _)
\* h.update(rel); h.update(sha) for every element of unique_parts, in order
Feed(parts, acc) ==
    IF parts = <<>> THEN acc
    ELSE Feed(Tail(parts), acc \o Head(parts)[1] \o Head(parts)[2])

\* A digest that names every member by its path below the project, the
\* configured path in front, instead of its path relative to the subject
GenerateRefUnderPath(pth, t) ==
    LET filelist == IF t.kind = "dir"
                    THEN [i \in 1..Len(ListRelativePaths(t)) |->
                            <<pth \o "/" \o ListRelativePaths(t)[i],
                              t.members[ListRelativePaths(t)[i]]>>]
                    ELSE << <<pth, t>> >>
        unique_parts == [i \in 1..Len(filelist) |->
                            <<filelist[i][1], unique_key(filelist[i][2])>>]
    IN Sha256Hex(Feed(unique_parts, ""))

\* self._generate_ref(fullpath), for a subject configured with path `pth`
\* whose tree at fullpath is t
GenerateRef(pth, t) ==
    LET filelist == IF t.kind = "dir"
                    THEN [i \in 1..Len(ListRelativePaths(t)) |->
                            <<ListRelativePaths(t)[i],
                              t.members[ListRelativePaths(t)[i]]>>]
                    ELSE << <<pth, t>> >>
        unique_parts == [i \in 1..Len(filelist) |->
                            <<filelist[i][1], unique_key(filelist[i][2])>>]
    IN Sha256Hex(Feed(unique_parts, ""))

\* A name in the mirror directory that is always that of the declared ref
MirrorFileOfRef(p, s) == ref[p]

\* self._get_mirror_file(sha): the name looked up in the mirror directory
MirrorFile(p, s) == IF s # None THEN s ELSE ref[p]

\* os.path.exists(self._get_mirror_file(...))
Exists(name) == name \in DOMAIN mirror

\* The digests a ref or an entry name can be: those of the subjects, and one
\* digest that no subject has.
BadRef == Sha256Hex("other")

----------------------------------------------------------------------------
(* ConsistencyOracle *)

\* A get_consistency that looks up the mirror directory and not the entry
GetConsistencyOfDirectory(r, names) ==
    IF r = None THEN "INCONSISTENT" ELSE "CACHED"

\* ProjectRefSource.get_consistency, for a source whose ref is r, when the
\* names in `names` exist in the mirror directory
GetConsistency(r, names) ==
    IF r = None THEN "INCONSISTENT"
    ELSE IF r \in names THEN "CACHED"
    ELSE "RESOLVED"

----------------------------------------------------------------------------
(* Initial state: the processes have loaded the same element, so that     *)
(* configure() has given their sources the same path and ref; the mirror   *)
(* directory is empty.                                                     *)

InitialLive ==
    [pth \in Paths |->
        IF pth = DirPath THEN Dir([a |-> File("x"), b |-> File("x")])
        ELSE File("x")]

\* ref as configured: absent, the digest of the subject, or another digest
InitialRefs(pth) == {None, GenerateRef(pth, InitialLive[pth]), BadRef}

\* No digest computation is under way
DigestIdle ==
    /\ sub = <<>>
    /\ dig = <<>>

\* stage() is not called
StageIdle ==
    /\ subject = NoTree
    /\ directory = <<>>
    /\ given = <<>>
    /\ spc = "idle"
    /\ files = <<>>
    /\ sres = None
    /\ chmoded = {}

\* No tar element is loaded
TarIdle ==
    /\ compression = None
    /\ include_checksums = <<>>
    /\ tpc = "idle"
    /\ tarball = "absent"
    /\ hashes = <<>>
    /\ written = <<>>
    /\ terr = None

AuxIdle == DigestIdle /\ StageIdle /\ TarIdle

\* The sources as configure() leaves them for path pth and ref r
MainInit(pth, r) ==
    /\ live = InitialLive
    /\ mirror = <<>>
    /\ path = [p \in Procs |-> pth]
    /\ ref = [p \in Procs |-> r]
    /\ pc = [p \in Procs |-> "idle"]
    /\ op = [p \in Procs |-> "none"]
    /\ td = [p \in Procs |-> FALSE]
    /\ target = [p \in Procs |-> NoTree]
    /\ sha = [p \in Procs |-> None]
    /\ todo = [p \in Procs |-> {}]
    /\ result = [p \in Procs |-> "none"]
    /\ warned = [p \in Procs |-> FALSE]
    /\ cons = [p \in Procs |-> "none"]
    /\ touched = [p \in Procs |-> FALSE]
    /\ overlap = [p \in Procs |-> FALSE]
    /\ calls = 0

Init ==
    /\ AuxIdle
    /\ \E pth \in Paths : \E r \in InitialRefs(pth) : MainInit(pth, r)

----------------------------------------------------------------------------
(* Helpers on the mirror directory *)

InCall == {"copy", "hash", "exists", "rmtree", "unlink", "rmdir", "rename"}

Put(m, name, entry) ==
    [n \in DOMAIN m \cup {name} |-> IF n = name THEN entry ELSE m[n]]

\* A removal that takes the whole mirror directory with it
RemoveDirectory(m, name) == <<>>

Remove(m, name) == [n \in DOMAIN m \ {name} |-> m[n]]

Without(entry, r) ==
    Dir([n \in DOMAIN entry.members \ {r} |-> entry.members[n]])

\* A scratch directory that is removed after the rename only
TempdirExitOnSuccess(p, res) == res \notin {"ok", "SourceError"}

\* leaving the `with self.tempdir() as td:` block: does td still exist?
TempdirExit(p, res) == FALSE

\* The call of p ends with result res (a return or a propagating exception).
Leave(p, res, w) ==
    /\ pc' = [pc EXCEPT ![p] = "done"]
    /\ td' = [td EXCEPT ![p] = TempdirExit(p, res)]
    /\ target' = [target EXCEPT ![p] = NoTree]
    /\ todo' = [todo EXCEPT ![p] = {}]
    /\ result' = [result EXCEPT ![p] = res]
    /\ warned' = [warned EXCEPT ![p] = w]

----------------------------------------------------------------------------
(* fetch and track *)

\* A fetch that does not compare the digests
FetchOutcomeUnchecked(p, s) == "ok"

\* A fetch that raises when the digests agree
FetchOutcomeInverted(p, s) == IF s = ref[p] THEN "SourceError" ELSE "ok"

\* fetch(): the comparison after _ensure_mirror returned s
FetchOutcome(p, s) == IF s # ref[p] THEN "SourceError" ELSE "ok"

\* A track that warns also when no ref was set
TrackWarnsUnset(p, s) == ref[p] # s

\* track(): the condition of the warning after _ensure_mirror returned s
TrackWarns(p, s) == ref[p] # None /\ ref[p] # s

\* The end of a call whose _ensure_mirror returned sha[p]
Return(p) ==
    IF op[p] = "fetch"
    THEN Leave(p, FetchOutcome(p, sha[p]), FALSE)
    ELSE Leave(p, "ok", TrackWarns(p, sha[p]))

\* fetch() or track() is entered: tempdir() creates td
Begin(p) ==
    /\ pc[p] = "idle"
    /\ calls < MaxCalls
    /\ calls' = calls + 1
    /\ \E o \in {"fetch", "track"} :
        /\ o = "fetch" => ref[p] # None
        /\ op' = [op EXCEPT ![p] = o]
    /\ pc' = [pc EXCEPT ![p] = "copy"]
    /\ td' = [td EXCEPT ![p] = TRUE]
    /\ overlap' = [q \in Procs |->
                     IF q = p THEN \E r \in Procs \ {p} : pc[r] \in InCall
                     ELSE IF pc[q] \in InCall THEN TRUE ELSE overlap[q]]
    /\ UNCHANGED <<live, mirror, path, ref, target, sha, todo, result, warned,
                   cons, touched, aux>>

\* _ensure_mirror: the subject is copied to targetdir
Copy(p) ==
    /\ pc[p] = "copy"
    /\ IF live[path[p]].kind = "file" /\ Dirname(path[p]) = ""
       THEN \* os.makedirs(basefolder) with basefolder = targetdir + "/",
            \* which os.makedirs(targetdir) has just created: FileExistsError
            Leave(p, "OSError", FALSE)
       ELSE \* utils.copy_files(self.fullpath, targetdir), or utils.safe_copy
            \* after which targetdir is the copied file itself
            /\ target' = [target EXCEPT ![p] = live[path[p]]]
            /\ pc' = [pc EXCEPT ![p] = "hash"]
            /\ UNCHANGED <<td, todo, result, warned>>
    /\ UNCHANGED <<live, mirror, op, path, ref, sha, cons, touched, overlap, calls, aux>>

\* An _ensure_mirror that hashes the subject where it lives, not its copy
HashLive(p) ==
    /\ pc[p] = "hash"
    /\ sha' = [sha EXCEPT ![p] = GenerateRef(path[p], live[path[p]])]
    /\ pc' = [pc EXCEPT ![p] = "exists"]
    /\ UNCHANGED <<live, mirror, op, path, ref, td, target, todo, result,
                   warned, cons, touched, overlap, calls, aux>>

\* _ensure_mirror: sha256 = self._generate_ref(targetdir)
Hash(p) ==
    /\ pc[p] = "hash"
    /\ sha' = [sha EXCEPT ![p] = GenerateRef(path[p], target[p])]
    /\ pc' = [pc EXCEPT ![p] = "exists"]
    /\ UNCHANGED <<live, mirror, op, path, ref, td, target, todo, result,
                   warned, cons, touched, overlap, calls, aux>>

\* _ensure_mirror: if os.path.exists(self._get_mirror_file(str(sha256)))
ExistsCheck(p) ==
    /\ pc[p] = "exists"
    /\ pc' = [pc EXCEPT ![p] =
                IF Exists(MirrorFile(p, sha[p])) THEN "rmtree" ELSE "rename"]
    /\ UNCHANGED <<live, mirror, op, path, ref, td, target, sha, todo, result,
                   warned, cons, touched, overlap, calls, aux>>

\* utils._force_rmtree(entry): shutil.rmtree lists the entry.  A name that
\* is gone or is not a directory raises, which _force_rmtree turns into
\* UtilError.
RmtreeList(p) ==
    /\ pc[p] = "rmtree"
    /\ IF Exists(sha[p]) /\ mirror[sha[p]].kind = "dir"
       THEN /\ todo' = [todo EXCEPT ![p] = DOMAIN mirror[sha[p]].members]
            /\ pc' = [pc EXCEPT ![p] =
                        IF DOMAIN mirror[sha[p]].members = {}
                        THEN "rmdir" ELSE "unlink"]
            /\ UNCHANGED <<td, target, result, warned>>
       ELSE Leave(p, "UtilError", FALSE)
    /\ UNCHANGED <<live, mirror, op, path, ref, sha, cons, touched, overlap, calls, aux>>

\* shutil.rmtree unlinks one listed member (the order is the directory's)
RmtreeUnlink(p) ==
    /\ pc[p] = "unlink"
    /\ \E r \in todo[p] :
        IF Exists(sha[p]) /\ mirror[sha[p]].kind = "dir"
           /\ r \in DOMAIN mirror[sha[p]].members
        THEN /\ mirror' = Put(mirror, sha[p], Without(mirror[sha[p]], r))
             /\ touched' = [touched EXCEPT ![p] = TRUE]
             /\ todo' = [todo EXCEPT ![p] = todo[p] \ {r}]
             /\ pc' = [pc EXCEPT ![p] =
                         IF todo[p] = {r} THEN "rmdir" ELSE "unlink"]
             /\ UNCHANGED <<td, target, result, warned>>
        ELSE /\ Leave(p, "UtilError", FALSE)
             /\ UNCHANGED <<mirror, touched>>
    /\ UNCHANGED <<live, op, path, ref, sha, cons, overlap, calls, aux>>

\* shutil.rmtree removes the emptied directory
RmtreeRmdir(p) ==
    /\ pc[p] = "rmdir"
    /\ IF Exists(sha[p]) /\ mirror[sha[p]].kind = "dir"
          /\ DOMAIN mirror[sha[p]].members = {}
       THEN /\ mirror' = Remove(mirror, sha[p])
            /\ touched' = [touched EXCEPT ![p] = TRUE]
            /\ pc' = [pc EXCEPT ![p] = "rename"]
            /\ UNCHANGED <<td, target, todo, result, warned>>
       ELSE /\ Leave(p, "UtilError", FALSE)
            /\ UNCHANGED <<mirror, touched>>
    /\ UNCHANGED <<live, op, path, ref, sha, cons, overlap, calls, aux>>

\* os.rename(src, dst) succeeds: dst is absent, or both are files, or src
\* is a directory and dst an empty directory
RenameAllowed(src, m, name) ==
    \/ name \notin DOMAIN m
    \/ src.kind = "file" /\ m[name].kind = "file"
    \/ src.kind = "dir" /\ m[name].kind = "dir"
         /\ DOMAIN m[name].members = {}

\* A track that stores the digest it computed as the ref of the source
RenameStoringRef(p) ==
    /\ pc[p] = "rename"
    /\ IF RenameAllowed(target[p], mirror, MirrorFile(p, sha[p]))
       THEN /\ mirror' = Put(mirror, MirrorFile(p, sha[p]), target[p])
            /\ touched' = [touched EXCEPT ![p] = TRUE]
            /\ ref' = [ref EXCEPT ![p] = IF op[p] = "track" THEN sha[p] ELSE @]
            /\ Return(p)
       ELSE /\ Leave(p, "OSError", FALSE)
            /\ UNCHANGED <<mirror, touched, ref>>
    /\ UNCHANGED <<live, op, path, sha, cons, overlap, calls, aux>>

\* _ensure_mirror: os.rename(targetdir, self._get_mirror_file(str(sha256))),
\* then return sha256 to fetch or track
Rename(p) ==
    /\ pc[p] = "rename"
    /\ IF RenameAllowed(target[p], mirror, MirrorFile(p, sha[p]))
       THEN /\ mirror' = Put(mirror, MirrorFile(p, sha[p]), target[p])
            /\ touched' = [touched EXCEPT ![p] = TRUE]
            /\ Return(p)
       ELSE /\ Leave(p, "OSError", FALSE)
            /\ UNCHANGED <<mirror, touched>>
    /\ UNCHANGED <<live, op, path, ref, sha, cons, overlap, calls, aux>>

\* The operating system fails the file-system operation p is about to do
\* (EIO, ENOSPC, EACCES ...): the exception leaves the with block
Fault(p) ==
    /\ pc[p] \in InCall
    /\ Leave(p, "IOFault", FALSE)
    /\ UNCHANGED <<live, mirror, op, path, ref, sha, cons, touched, overlap, calls, aux>>

\* The process is terminated inside the call: nothing more of it runs, and
\* what it had on disk stays there
Kill(p) ==
    /\ pc[p] \in InCall
    /\ pc' = [pc EXCEPT ![p] = "killed"]
    /\ target' = [target EXCEPT ![p] = NoTree]
    /\ sha' = [sha EXCEPT ![p] = None]
    /\ todo' = [todo EXCEPT ![p] = {}]
    /\ touched' = [touched EXCEPT ![p] = FALSE]
    /\ overlap' = [overlap EXCEPT ![p] = FALSE]
    /\ UNCHANGED <<live, mirror, op, path, ref, td, result, warned, cons, calls, aux>>

\* A get_consistency that makes the entry it does not find
GetConsistencyCreating(p) ==
    /\ pc[p] \in {"idle", "done"}
    /\ cons[p] = "none"
    /\ cons' = [cons EXCEPT ![p] = GetConsistency(ref[p], DOMAIN mirror)]
    /\ pc' = [pc EXCEPT ![p] = "done"]
    /\ mirror' = IF ref[p] # None /\ ~Exists(ref[p])
                 THEN Put(mirror, ref[p], Dir(<<>>))
                 ELSE mirror
    /\ UNCHANGED <<live, op, path, ref, td, target, sha, todo,
                   result, warned, touched, overlap, calls, aux>>

\* get_consistency() is called between calls
GetConsistencyCall(p) ==
    /\ pc[p] \in {"idle", "done"}
    /\ cons[p] = "none"
    /\ cons' = [cons EXCEPT ![p] = GetConsistency(ref[p], DOMAIN mirror)]
    /\ pc' = [pc EXCEPT ![p] = "done"]
    /\ UNCHANGED <<live, mirror, op, path, ref, td, target, sha, todo,
                   result, warned, touched, overlap, calls, aux>>

\* set_ref(new_ref, node) with the digest track() returned
SetRef(p) ==
    /\ pc[p] = "done"
    /\ op[p] = "track"
    /\ result[p] = "ok"
    /\ cons[p] = "none"
    /\ ref[p] # sha[p]
    /\ ref' = [ref EXCEPT ![p] = sha[p]]
    /\ UNCHANGED <<live, mirror, pc, op, path, td, target, sha, todo, result,
                   warned, cons, touched, overlap, calls, aux>>

\* The caller has taken the results and goes on
Ack(p) ==
    /\ pc[p] = "done"
    /\ pc' = [pc EXCEPT ![p] = "idle"]
    /\ op' = [op EXCEPT ![p] = "none"]
    /\ sha' = [sha EXCEPT ![p] = None]
    /\ result' = [result EXCEPT ![p] = "none"]
    /\ warned' = [warned EXCEPT ![p] = FALSE]
    /\ cons' = [cons EXCEPT ![p] = "none"]
    /\ touched' = [touched EXCEPT ![p] = FALSE]
    /\ overlap' = [overlap EXCEPT ![p] = FALSE]
    /\ UNCHANGED <<live, mirror, path, ref, td, target, todo, calls, aux>>

\* The user changes a subject in the project directory
Modify ==
    /\ \E pth \in {path[p] : p \in Procs} :
        \E c \in Contents(pth) \ {live[pth]} :
            live' = [live EXCEPT ![pth] = c]
    /\ UNCHANGED <<mirror, pc, op, path, ref, td, target, sha, todo, result,
                   warned, cons, touched, overlap, calls, aux>>

Step(p) ==
    \/ Begin(p)
    \/ Copy(p)
    \/ Hash(p)
    \/ ExistsCheck(p)
    \/ RmtreeList(p)
    \/ RmtreeUnlink(p)
    \/ RmtreeRmdir(p)
    \/ Rename(p)
    \/ GetConsistencyCall(p)
    \/ SetRef(p)
    \/ Ack(p)

Next ==
    \/ \E p \in Procs : Step(p)
    \/ \E p \in Procs : Fault(p)
    \/ \E p \in Procs : Kill(p)
    \/ Modify

\* Processes sharing the mirror directory, interleaved at every file-system
\* operation
Spec == Init /\ [][Next]_vars

\* One process alone: its calls run one after the other to completion
NextSeq ==
    \/ Step("p1")
    \/ Fault("p1")
    \/ Modify

SpecSeq == Init /\ [][NextSeq]_vars

----------------------------------------------------------------------------
(* The digest computation taken alone: _generate_ref applied to two        *)
(* subjects drawn from a bounded set of trees with regular files, empty    *)
(* directories and symbolic links.                                         *)

mainVars == <<live, mirror, pc, op, path, ref, td, target, sha, todo, result,
              warned, cons, touched, overlap, calls>>

OtherDirPath == "other"

DigestNames == {"a", "ab"}

DigestMembers ==
    { File("x"), File("y"), EmptyDir,
      Link("0", "none"), Link("b0", "none"),
      Link("d", "dir"), Link("e", "dir"), Link("d", "file") }

DigestSubjects ==
    { [path |-> pth, tree |-> Dir(m)] :
          pth \in {DirPath, OtherDirPath},
          m \in UNION { [S -> DigestMembers] : S \in SUBSET DigestNames \ {{}} } }
    \cup
    { [path |-> pth, tree |-> File(d)] :
          pth \in {FilePath, RootFilePath}, d \in Datas }

DigestInit ==
    /\ MainInit(DirPath, None)
    /\ StageIdle
    /\ TarIdle
    /\ sub \in [{1, 2} -> DigestSubjects]
    /\ dig = [i \in {1, 2} |-> None]

\* self._generate_ref(fullpath) is called for subject i
ComputeDigest(i) ==
    /\ dig[i] = None
    /\ dig' = [dig EXCEPT ![i] = GenerateRef(sub[i].path, sub[i].tree)]
    /\ UNCHANGED <<sub, mainVars, stageVars, tarVars>>

DigestNext == \E i \in {1, 2} : ComputeDigest(i)

SpecDigest == DigestInit /\ [][DigestNext]_vars

----------------------------------------------------------------------------
(* stage(directory) taken alone: the subject is copied into the            *)
(* destination, then the loop over the copied members sets their modes.    *)

\* stat.S_IXUSR
S_IXUSR == 64

\* stat.S_IRWXU | S_IRGRP | S_IXGRP | S_IROTH | S_IXOTH (rwxr-xr-x)
ModeExecutable == 493

\* stat.S_IRUSR | S_IWUSR | S_IRGRP | S_IROTH (rw-r--r--)
ModePlain == 420

\* Modes of the files of a subject: rw-------, rw-rw-r--, rwx------, rwxrwxr-x
FileModes == {384, 436, 448, 509}

\* Modes of the empty directories of a subject: rwx------, rwxrwxr-x
DirModes == {448, 509}

\* Modes of a directory os.makedirs creates, by the umask: 022 or 077
MakedirsModes == {493, 448}

ModeFile(d, m) == [kind |-> "file", data |-> d, mode |-> m]
ModeDir(m) == [kind |-> "dir", mode |-> m]

\* The directories above a relative path, outermost first:
\* dirs[:i] for i in range(1, len(dirs))
Ancestors(f) == IF f = "d/f" THEN <<"d">> ELSE <<>>

\* os.path.basename(self.path)
Basename(pth) == IF pth \in {FilePath, RootFilePath} THEN "bob.txt" ELSE pth

\* The members of a staged directory: a file a, a link l, and d either an
\* empty directory or a directory holding d/f
StageMembers(r) ==
    IF r = "a" THEN { ModeFile("x", m) : m \in FileModes }
    ELSE IF r = "d" THEN { ModeDir(m) : m \in DirModes }
    ELSE IF r = "d/f" THEN { ModeFile("y", m) : m \in FileModes }
                             \cup { Link("a", "none") }
    ELSE { Link("a", "file"), Link("d", "dir"), Link("gone", "none") }

StageNameSets ==
    { S \in SUBSET {"a", "d", "d/f", "l"} :
          S # {} /\ ~({"d", "d/f"} \subseteq S) }

StageTrees ==
    UNION { { Dir(m) : m \in { g \in [S -> UNION { StageMembers(r) : r \in S }] :
                                  \A r \in S : g[r] \in StageMembers(r) } } :
            S \in StageNameSets }

StageSubjects ==
    { [path |-> DirPath, tree |-> t] : t \in StageTrees }
    \cup
    { [path |-> pth, tree |-> ModeFile("x", m)] :
          pth \in {FilePath, RootFilePath}, m \in FileModes }

\* The destination as stage finds it: empty, or with d a symbolic link to a
\* directory elsewhere while the subject holds d/f
StageInit ==
    /\ MainInit(DirPath, None)
    /\ DigestIdle
    /\ TarIdle
    /\ subject \in StageSubjects
    /\ \/ given = <<>>
       \/ /\ subject.tree.kind = "dir"
          /\ "d/f" \in DOMAIN subject.tree.members
          /\ given = [n \in {"d"} |-> Link("elsewhere", "dir")]
    /\ directory = given
    /\ spc = "copy"
    /\ files = <<>>
    /\ sres = None
    /\ chmoded = {}

\* What utils.copy_files puts at name n of the destination: the member
\* copied with its mode, or a directory made on the way to a member
Copied(t, n, um) ==
    IF n \in DOMAIN t.members THEN t.members[n] ELSE ModeDir(um)

\* A copy that lists the subject with list_dirs=False: regular files and
\* links to files only
StageCopyFilesOnly ==
    /\ spc = "copy"
    /\ \E um \in MakedirsModes :
        IF subject.tree.kind = "dir"
        THEN LET listed == SelectSeq(ListRelativePaths(subject.tree),
                              LAMBDA r : ~IsDir(subject.tree.members[r]))
                 names == { listed[i] : i \in DOMAIN listed }
             IN /\ files' = listed
                /\ directory' =
                      [n \in DOMAIN directory \cup names
                            \cup { r \in {"d"} : "d/f" \in names } |->
                          IF n \in DOMAIN directory THEN directory[n]
                          ELSE Copied(subject.tree, n, um)]
        ELSE /\ files' = <<Basename(subject.path)>>
             /\ directory' =
                   [n \in DOMAIN directory \cup {Basename(subject.path)} |->
                       IF n = Basename(subject.path) THEN subject.tree
                       ELSE directory[n]]
    /\ spc' = "chmod"
    /\ UNCHANGED <<subject, given, sres, chmoded, mainVars, digestVars, tarVars>>

\* stage: files = list(utils.list_relative_paths(..., list_dirs=True));
\* utils.copy_files(self.fullpath, directory, files=files), or
\* utils.safe_copy(self.fullpath, destfile) for a single file
StageCopy ==
    /\ spc = "copy"
    /\ \E um \in MakedirsModes :
        IF subject.tree.kind = "dir"
        THEN LET listed == ListRelativePaths(subject.tree)
                 names == { listed[i] : i \in DOMAIN listed }
             IN /\ files' = listed
                /\ directory' =
                      [n \in DOMAIN directory \cup names
                            \cup { r \in {"d"} : "d/f" \in names } |->
                          IF n \in DOMAIN directory THEN directory[n]
                          ELSE Copied(subject.tree, n, um)]
        ELSE /\ files' = <<Basename(subject.path)>>
             /\ directory' =
                   [n \in DOMAIN directory \cup {Basename(subject.path)} |->
                       IF n = Basename(subject.path) THEN subject.tree
                       ELSE directory[n]]
    /\ spc' = "chmod"
    /\ UNCHANGED <<subject, given, sres, chmoded, mainVars, digestVars, tarVars>>

\* A mode test on the others' execute bit instead of the owner's
FileModeByOthers(st_mode) ==
    IF st_mode % 2 = 1 THEN ModeExecutable ELSE ModePlain

\* The mode stage gives a regular file: if st.st_mode & stat.S_IXUSR
FileMode(st_mode) ==
    IF (st_mode \div S_IXUSR) % 2 = 1 THEN ModeExecutable ELSE ModePlain

\* os.path.isdir(d) and not os.path.islink(d)
IsRealDir(n) == n \in DOMAIN directory /\ directory[n].kind = "dir"

\* The destination after the chmod calls of one round of the loop for f
ChmodRound(f) ==
    [n \in DOMAIN directory |->
        IF n # f /\ n \notin { Ancestors(f)[i] : i \in DOMAIN Ancestors(f) }
        THEN directory[n]
        ELSE IF directory[n].kind = "link"
        THEN \* left alone, or the chmod lands on what the link points to
             directory[n]
        ELSE IF directory[n].kind = "dir"
        THEN [directory[n] EXCEPT !.mode = ModeExecutable]
        ELSE [directory[n] EXCEPT !.mode = FileMode(directory[n].mode)]]

\* A loop that sets the modes without the assertion
StageChmodUnasserted ==
    /\ spc = "chmod"
    /\ files # <<>>
    /\ LET f == Head(files)
           above == { Ancestors(f)[i] : i \in DOMAIN Ancestors(f) }
       IN /\ directory' = ChmodRound(f)
          /\ chmoded' = chmoded \cup above
                           \cup { n \in {f} : directory[n].kind # "link" }
          /\ files' = Tail(files)
          /\ spc' = IF Tail(files) = <<>> THEN "done" ELSE "chmod"
          /\ sres' = IF Tail(files) = <<>> THEN "ok" ELSE sres
    /\ UNCHANGED <<subject, given, mainVars, digestVars, tarVars>>

\* stage: one round of `for f in files`: the directories above f are
\* asserted to be real directories and set to rwxr-xr-x, then f gets its mode
StageChmod ==
    /\ spc = "chmod"
    /\ files # <<>>
    /\ LET f == Head(files)
           above == { Ancestors(f)[i] : i \in DOMAIN Ancestors(f) }
       IN IF \E d \in above : ~IsRealDir(d)
          THEN \* AssertionError leaves stage
               /\ sres' = "AssertionError"
               /\ spc' = "done"
               /\ UNCHANGED <<directory, chmoded, files>>
          ELSE /\ directory' = ChmodRound(f)
               /\ chmoded' = chmoded \cup above
                                \cup { n \in {f} : directory[n].kind # "link" }
               /\ files' = Tail(files)
               /\ spc' = IF Tail(files) = <<>> THEN "done" ELSE "chmod"
               /\ sres' = IF Tail(files) = <<>> THEN "ok" ELSE sres
    /\ UNCHANGED <<subject, given, mainVars, digestVars, tarVars>>

StageNext == StageCopy \/ StageChmod

SpecStage == StageInit /\ [][StageNext]_vars

----------------------------------------------------------------------------
(* A build: one process fetches and tracks, and stage() is called for its  *)
(* source once get_consistency answers CACHED for it.                      *)

\* The tree t as stage finds it on disk, every regular file with mode m
WithMode(t, m) ==
    IF t.kind = "dir"
    THEN Dir([r \in DOMAIN t.members |-> ModeFile(t.members[r].data, m)])
    ELSE ModeFile(t.data, m)

\* stage(directory) is called on an empty directory for the source of p,
\* which is CACHED: os.path.isdir(self.fullpath) and what is read there
StageCall(p) ==
    /\ pc[p] \in {"idle", "done"}
    /\ spc = "idle"
    /\ GetConsistency(ref[p], DOMAIN mirror) = "CACHED"
    /\ \E m \in FileModes :
        subject' = [path |-> path[p], tree |-> WithMode(live[path[p]], m),
                    ref |-> ref[p]]
    /\ spc' = "copy"
    /\ UNCHANGED <<directory, given, files, sres, chmoded, mainVars, digestVars,
                   tarVars>>

BuildNext ==
    \/ NextSeq
    \/ StageCall("p1")
    \/ StageCopy
    \/ StageChmod

SpecBuild == Init /\ [][BuildNext]_vars

----------------------------------------------------------------------------
(* The tar element: configure, preflight, then assemble, which writes the  *)
(* tarball and after it one side file per checksum.                        *)

\* Permitted checksums
CHECKSUMS == {"sha1", "sha256", "sha512", "md5"}

\* The maps of assemble
compress_map == [none |-> "", gzip |-> "gz", xz |-> "xz", bzip2 |-> "bz2"]
extension_map ==
    [none |-> ".tar", gzip |-> ".tar.gz", xz |-> ".tar.xz", bzip2 |-> ".tar.bz2"]
hash_map ==
    [sha1 |-> "sha1", sha256 |-> "sha256", sha512 |-> "sha512", md5 |-> "md5"]

\* What an element file may say
Compressions == {"none", "gzip", "xz", "bzip2", "zip"}
ChecksumTypes == {"sha1", "sha256", "sha512", "md5", "crc32"}
ChecksumLists == UNION { [1..n -> ChecksumTypes] : n \in 0..MaxChecksums }

Range(q) == { q[i] : i \in DOMAIN q }

otherVars == <<mainVars, digestVars, stageVars>>

TarInit ==
    /\ MainInit(DirPath, None)
    /\ DigestIdle
    /\ StageIdle
    /\ compression = None
    /\ include_checksums = <<>>
    /\ tpc = "new"
    /\ tarball = "absent"
    /\ hashes = <<>>
    /\ written = <<>>
    /\ terr = None

\* The lifecycle ends with exception e
TarRaise(e) ==
    /\ tpc' = "failed"
    /\ terr' = e

\* configure(node)
Configure ==
    /\ tpc = "new"
    /\ \E c \in Compressions : \E l \in ChecksumLists :
        /\ compression' = c
        /\ include_checksums' = l
        /\ IF c \notin {"none", "gzip", "xz", "bzip2"}
           THEN TarRaise("ElementError")
           ELSE tpc' = "configured" /\ UNCHANGED terr
    /\ UNCHANGED <<tarball, hashes, written, otherVars>>

\* A preflight that lets every checksum through
PreflightUnchecked ==
    /\ tpc = "configured"
    /\ tpc' = "preflighted"
    /\ UNCHANGED <<terr, compression, include_checksums, tarball, hashes,
                   written, otherVars>>

\* preflight()
Preflight ==
    /\ tpc = "configured"
    /\ IF ~(Range(include_checksums) \subseteq CHECKSUMS)
       THEN TarRaise("ElementError")
       ELSE tpc' = "preflighted" /\ UNCHANGED terr
    /\ UNCHANGED <<compression, include_checksums, tarball, hashes, written,
                   otherVars>>

\* assemble: extension_map[self.compression], compress_map[self.compression]
\* and tarfile.TarFile.open(name=tarname, mode=mode)
AssembleOpen ==
    /\ tpc = "preflighted"
    /\ IF compression \in DOMAIN extension_map
          /\ compression \in DOMAIN compress_map
       THEN /\ tarball' = "open"
            /\ tpc' = "tar"
            /\ UNCHANGED terr
       ELSE /\ TarRaise("KeyError")
            /\ UNCHANGED tarball
    /\ UNCHANGED <<compression, include_checksums, hashes, written, otherVars>>

\* assemble: the members are added and the with block closes the tarball;
\* without checksums assemble returns
AssembleClose ==
    /\ tpc = "tar"
    /\ tarball' = "closed"
    /\ tpc' = IF include_checksums # <<>> THEN "hash" ELSE "done"
    /\ UNCHANGED <<terr, compression, include_checksums, hashes, written,
                   otherVars>>

\* assemble: hashes[hash_path] = hash_map[hash_type]() for every requested
\* type, then the tarball is read and fed to every hash
AssembleHash ==
    /\ tpc = "hash"
    /\ IF Range(include_checksums) \subseteq DOMAIN hash_map
       THEN /\ hashes' = [t \in Range(include_checksums) |-> tarball]
            /\ tpc' = "write"
            /\ UNCHANGED terr
       ELSE /\ TarRaise("KeyError")
            /\ UNCHANGED hashes
    /\ UNCHANGED <<compression, include_checksums, tarball, written, otherVars>>

\* assemble: for path in hashes.keys(): the side file is written; return
AssembleWrite ==
    /\ tpc = "write"
    /\ written' = [t \in DOMAIN hashes |-> 1]
    /\ tpc' = "done"
    /\ UNCHANGED <<terr, compression, include_checksums, tarball, hashes,
                   otherVars>>

TarNext ==
    \/ Configure
    \/ Preflight
    \/ AssembleOpen
    \/ AssembleClose
    \/ AssembleHash
    \/ AssembleWrite

SpecTar == TarInit /\ [][TarNext]_vars

----------------------------------------------------------------------------
(* Vocabulary of the properties *)

Calls == {"fetch", "track"}

\* The call of p has ended (returned or raised) and its results are at hand
Finished(p) == pc[p] = "done" /\ op[p] \in Calls

\* _ensure_mirror returned its digest to fetch or track
Returned(p) == Finished(p) /\ result[p] \in {"ok", "SourceError"}

\* The entry named d is the whole tree of some subject whose digest is d
Complete(d) ==
    /\ d \in DOMAIN mirror
    /\ \E pth \in Paths : GenerateRef(pth, mirror[d]) = d

----------------------------------------------------------------------------
(* C1: every entry visible in the mirror directory under a name D is a     *)
(* complete tree whose digest is D, in every state a reader can observe:   *)
(* while _ensure_mirror runs, when an entry for D existed before the call, *)
(* and after a process was killed at any step.                             *)
(* The code does not keep this: _force_rmtree empties the old entry member *)
(* by member under its final name.                                         *)
C1_VisibleEntriesComplete == \A d \in DOMAIN mirror : Complete(d)

(* C2: two processes that run _ensure_mirror concurrently on identical     *)
(* subjects (both computed the same digest, neither met an I/O fault) both *)
(* return that digest, and the mirror directory ends with one complete     *)
(* entry for it.                                                           *)
(* The code does not keep this: the exists check, the removal and the      *)
(* rename of the two processes interleave.                                 *)
C2_RacingCallsBothSucceed ==
    \A p \in Procs : \A q \in Procs \ {p} :
        ( /\ Finished(p) /\ Finished(q)
          /\ overlap[p] /\ overlap[q]
          /\ sha[p] # None /\ sha[p] = sha[q]
          /\ result[p] # "IOFault" /\ result[q] # "IOFault" )
        => /\ Returned(p) /\ Returned(q)
           /\ Complete(sha[p])

(* C3: a call of _ensure_mirror on a subject, directory or single file,    *)
(* that has computed the digest D and met no I/O fault returns D and       *)
(* leaves the complete entry D in the mirror directory, also when D was    *)
(* mirrored by an earlier call (track followed by fetch).                  *)
(* The code does not keep this for a single file: the entry is then a      *)
(* regular file, on which _force_rmtree raises.                            *)
C3_RepeatedCallSucceeds ==
    \A p \in Procs :
        (Finished(p) /\ sha[p] # None /\ result[p] # "IOFault")
        => Returned(p) /\ Complete(sha[p])

(* C4, as stated: an entry that is visible stays visible in every later    *)
(* state.                                                                  *)
C4_EntriesNeverDeleted ==
    [][\A d \in DOMAIN mirror : d \in DOMAIN mirror']_vars

(* C4, amended: an entry named D is removed or changed only by a process   *)
(* whose running call has computed the digest D, in the discard            *)
(* (_force_rmtree) and rename steps of _ensure_mirror; no other step of    *)
(* any call and no entry of another digest is concerned.                   *)
C4_DeletedOnlyByOwnDiscard ==
    [][\A d \in DOMAIN mirror :
          (d \notin DOMAIN mirror' \/ mirror'[d] # mirror[d])
          => \E p \in Procs :
                /\ sha[p] = d
                /\ pc[p] \in {"unlink", "rmdir", "rename"}]_vars

\* An old entry has been discarded by the call that is about to rename its
\* copy to the same name, while an entry of another digest is still there
C4_Witness ==
    \E p \in Procs :
        /\ pc[p] = "rename"
        /\ touched[p]
        /\ sha[p] \notin DOMAIN mirror
        /\ DOMAIN mirror # {}

(* C5: a call that ends with an error (while copying, hashing, discarding  *)
(* the old entry or renaming) has not changed the mirror directory.  A     *)
(* failed call undoes nothing, so the directory is as it was before the    *)
(* call exactly if the call has not changed it.                            *)
(* The code does not keep this: the old entry is discarded before the      *)
(* rename, under its final name.                                           *)
C5_FailedCallLeavesMirror ==
    \A p \in Procs :
        (Finished(p) /\ result[p] \in {"IOFault", "UtilError", "OSError"})
        => ~touched[p]

(* C6: once a call has left (returned, or raised while copying, hashing,   *)
(* discarding or renaming, or raised the mismatch error of fetch) the      *)
(* scratch directory of the call and what it held no longer exist.         *)
C6_ScratchRemovedOnExit ==
    \A p \in Procs :
        pc[p] \in {"idle", "done"} => ~td[p] /\ target[p] = NoTree

\* One call has left by the mismatch error of fetch and one by an error of
\* its rename or discard step, both without leaving a scratch directory
C6_Witness ==
    \E p \in Procs : \E q \in Procs :
        /\ Finished(p) /\ result[p] = "SourceError" /\ ~td[p]
        /\ Finished(q) /\ result[q] \in {"OSError", "UtilError"}
        /\ sha[q] # None /\ ~td[q]

(* C7: what get_consistency returns is decided by ref and the lookup in    *)
(* the mirror directory alone: INCONSISTENT iff ref is None, CACHED iff    *)
(* ref is set and a name ref exists, RESOLVED iff ref is set and no name   *)
(* ref exists.                                                             *)
C7_ConsistencyClassification ==
    [][\A p \in Procs :
          (cons'[p] # cons[p] /\ cons'[p] # "none")
          => /\ cons'[p] = "INCONSISTENT" <=> ref[p] = None
             /\ cons'[p] = "CACHED"
                   <=> (ref[p] # None /\ ref[p] \in DOMAIN mirror)
             /\ cons'[p] = "RESOLVED"
                   <=> (ref[p] # None /\ ref[p] \notin DOMAIN mirror)]_vars

\* get_consistency has returned each of the three values
C7_Witness ==
    \E p \in Procs : \E q \in Procs :
        /\ cons[p] = "CACHED" /\ ref[p] \in DOMAIN mirror
        /\ cons[q] = "RESOLVED" /\ ref[q] # None

(* C8: the get_consistency that follows a fetch that returned without      *)
(* error, or a track whose digest the caller has set as ref, returns       *)
(* CACHED (one process, its calls one after the other).                    *)
C8_CachedAfterFetchOrTrack ==
    \A p \in Procs :
        ( /\ Finished(p) /\ result[p] = "ok" /\ cons[p] # "none"
          /\ op[p] = "track" => ref[p] = sha[p] )
        => cons[p] = "CACHED"

\* The first call ever made is a fetch of a source whose ref was set while
\* the mirror directory was empty (RESOLVED); it has returned, and
\* get_consistency has answered
C8_Witness ==
    \E p \in Procs :
        /\ Finished(p) /\ op[p] = "fetch" /\ result[p] = "ok"
        /\ calls = 1
        /\ cons[p] = "CACHED"

(* C9: a fetch whose _ensure_mirror returned a digest raises the mismatch  *)
(* error (SourceError) if and only if that digest differs from ref, and    *)
(* returns normally if and only if they are equal; fetch raises no         *)
(* SourceError otherwise.                                                  *)
C9_FetchMismatch ==
    \A p \in Procs :
        (Finished(p) /\ op[p] = "fetch")
        => /\ result[p] = "SourceError" => (sha[p] # None /\ sha[p] # ref[p])
           /\ result[p] = "ok" => sha[p] = ref[p]

\* A directory subject was modified after its ref was recorded, and the
\* fetch has raised the mismatch error
C9_Witness ==
    \E p \in Procs :
        /\ Finished(p) /\ op[p] = "fetch" /\ result[p] = "SourceError"
        /\ path[p] = DirPath
        /\ ref[p] = GenerateRef(DirPath, InitialLive[DirPath])
        /\ live[DirPath] # InitialLive[DirPath]

(* C10: track raises no mismatch error; when its _ensure_mirror returned   *)
(* it returns that digest, the digest of the copy just made, and it warns  *)
(* if and only if ref was set and differs from the digest.                 *)
C10_TrackWarnsOnDrift ==
    [][\A p \in Procs :
          (pc[p] \in InCall /\ pc'[p] = "done" /\ op[p] = "track")
          => /\ result'[p] # "SourceError"
             /\ result'[p] = "ok" =>
                   /\ sha'[p] = GenerateRef(path[p], target[p])
                   /\ warned'[p] <=> (ref[p] # None /\ ref[p] # sha'[p])
             /\ result'[p] # "ok" => ~warned'[p]]_vars

\* track has returned a digest other than the ref that was set, and warned
C10_Witness ==
    \E p \in Procs :
        /\ Finished(p) /\ op[p] = "track" /\ result[p] = "ok"
        /\ warned[p] /\ ref[p] # None /\ ref[p] # sha[p]

----------------------------------------------------------------------------
(* Vocabulary of the digest properties *)

\* The token of a member as the design gives it: "0" for a directory, the
\* text of the target for a symbolic link, the hash of the bytes for a
\* regular file
DesignToken(m) ==
    IF m.kind = "dir" THEN "0"
    ELSE IF m.kind = "link" THEN m.data
    ELSE Sha256Hex(m.data)

\* The sorted list of (relative path, member kind, token) of a subject
MemberList(s) ==
    IF s.tree.kind = "dir"
    THEN [i \in 1..Len(ListRelativePaths(s.tree)) |->
            LET r == ListRelativePaths(s.tree)[i]
            IN <<r, s.tree.members[r].kind, DesignToken(s.tree.members[r])>>]
    ELSE << <<s.path, "file", DesignToken(s.tree)>> >>

BothDigests == dig[1] # None /\ dig[2] # None

\* The two subjects are directories that differ in nothing but the target
\* text of one symbolic link
DifferInOneLinkTarget ==
    /\ sub[1].tree.kind = "dir" /\ sub[2].tree.kind = "dir"
    /\ DOMAIN sub[1].tree.members = DOMAIN sub[2].tree.members
    /\ \E r \in DOMAIN sub[1].tree.members :
        /\ sub[1].tree.members[r].kind = "link"
        /\ sub[2].tree.members[r].kind = "link"
        /\ sub[1].tree.members[r].to = sub[2].tree.members[r].to
        /\ sub[1].tree.members[r].data # sub[2].tree.members[r].data
        /\ \A q \in DOMAIN sub[1].tree.members \ {r} :
              sub[1].tree.members[q] = sub[2].tree.members[q]

----------------------------------------------------------------------------
(* C11: with SHA-256 injective on the bytes fed to it, two subjects get    *)
(* equal digests if and only if they have the same sorted list of          *)
(* (relative path, member kind, token) members.                            *)
(* The code does not keep this: path and token are fed without a           *)
(* separator and without the member kind.                                  *)
C11_DigestDistinguishesTrees ==
    BothDigests => (dig[1] = dig[2] <=> MemberList(sub[1]) = MemberList(sub[2]))

(* C12: the token fed for every symbolic-link member, dangling or with a   *)
(* regular file or a directory as target, is the text of its target, so    *)
(* two trees that differ only in the target of one link get different      *)
(* digests.                                                                *)
(* The code does not keep this: unique_key asks os.path.isdir first, which *)
(* follows the link.                                                       *)
C12_LinkTokenIsTarget ==
    /\ \A i \in DOMAIN dig :
          (dig[i] # None /\ sub[i].tree.kind = "dir")
          => \A r \in DOMAIN sub[i].tree.members :
                sub[i].tree.members[r].kind = "link"
                => unique_key(sub[i].tree.members[r])
                      = sub[i].tree.members[r].data
    /\ (BothDigests /\ DifferInOneLinkTarget) => dig[1] # dig[2]

----------------------------------------------------------------------------
(* C14: when _ensure_mirror has returned a digest D, the entry for D is a   *)
(* directory: it holds the tree of a directory subject in its layout, and  *)
(* a single-file subject below its parent path segment, never the bare     *)
(* file.                                                                   *)
(* The code does not keep this: for a single file targetdir is reassigned  *)
(* to the copied file, and the file itself is renamed to D.                *)
C14_EntryIsDirectory ==
    \A p \in Procs :
        Returned(p) => (Exists(sha[p]) /\ mirror[sha[p]].kind = "dir")

----------------------------------------------------------------------------
(* C17: get_consistency only reads: a call of it changes neither path nor  *)
(* ref nor the subject nor the mirror directory, and its answer is the     *)
(* answer a further call gives while nothing is written in between.        *)
C17_GetConsistencyIsPure ==
    [][\A p \in Procs :
          GetConsistencyCall(p)
          => /\ path' = path /\ ref' = ref
             /\ live' = live /\ mirror' = mirror /\ td' = td
             /\ cons'[p] = GetConsistency(ref'[p], DOMAIN mirror')]_vars

\* get_consistency has answered RESOLVED for a source with a ref while the
\* mirror directory holds other entries
C17_Witness ==
    \E p \in Procs :
        /\ pc[p] = "done"
        /\ cons[p] = "RESOLVED"
        /\ ref[p] # None
        /\ DOMAIN mirror # {}

(* C18: fetch and track never change ref: track hands its digest back and  *)
(* ref changes only when the caller stores it with set_ref.                *)
C18_RefChangedOnlyBySetRef ==
    [][\A p \in Procs : ref'[p] # ref[p] => SetRef(p)]_vars

\* track has returned a digest for a source without a ref, and the source
\* still has none
C18_Witness ==
    \E p \in Procs :
        /\ Returned(p)
        /\ op[p] = "track"
        /\ sha[p] # None
        /\ ref[p] = None

(* C19: in one _ensure_mirror call the digest is computed over the copy in *)
(* the scratch directory, and that copy is what is published under it: a   *)
(* change of the subject after the copy changes neither.                   *)
C19_DigestOfPublishedCopy ==
    [][\A p \in Procs :
          (pc[p] = "rename" /\ pc'[p] = "done"
             /\ result'[p] \in {"ok", "SourceError"})
          => /\ sha'[p] = GenerateRef(path[p], target[p])
             /\ sha'[p] \in DOMAIN mirror'
             /\ mirror'[sha'[p]] = target[p]]_vars

\* The subject has been changed after it was copied and hashed, and the
\* copy is about to be published
C19_Witness ==
    \E p \in Procs :
        /\ pc[p] = "rename"
        /\ target[p] # live[path[p]]
        /\ sha[p] # GenerateRef(path[p], live[path[p]])

----------------------------------------------------------------------------
(* Vocabulary of the staging properties *)

\* stage has returned, having been given an empty destination
StagedIntoEmpty == spc = "done" /\ sres = "ok" /\ given = <<>>

\* The member of the subject that was staged at name n of the destination
Staged(n) ==
    IF subject.tree.kind = "dir" THEN subject.tree.members[n] ELSE subject.tree

\* The names of the destination at which a member of the subject was staged
StagedNames ==
    IF subject.tree.kind = "dir" THEN DOMAIN subject.tree.members
    ELSE IF subject.path = FilePath \/ subject.path = RootFilePath
    THEN {"bob.txt"}
    ELSE {}

\* The directories that lie above a staged member
StagedAncestors == { n \in {"d"} : "d/f" \in StagedNames }

(* C15: after stage has returned on a destination that was empty, every    *)
(* directory in it has mode rwxr-xr-x, every regular file rwxr-xr-x if its *)
(* source had the owner's execute bit and rw-r--r-- otherwise, and no      *)
(* symbolic link has been chmod-ed.                                        *)
C15_ModesNormalised ==
    StagedIntoEmpty
    => \A n \in DOMAIN directory :
          /\ directory[n].kind = "dir" => directory[n].mode = 493
          /\ directory[n].kind = "file"
             => directory[n].mode =
                   IF (Staged(n).mode \div 64) % 2 = 1 THEN 493 ELSE 420
          /\ directory[n].kind = "link" => n \notin chmoded

\* A directory with an owner-executable file whose other bits differ from
\* rwxr-xr-x, a directory above a member and a symbolic link has been staged
C15_Witness ==
    /\ StagedIntoEmpty
    /\ {"a", "d", "d/f", "l"} \subseteq DOMAIN directory
    /\ Staged("a").mode = 448
    /\ Staged("d/f").kind = "file"
    /\ Staged("d/f").mode = 436

(* C16: stage puts every member of a directory subject at its relative     *)
(* path in the destination, and a single file at the last segment of its   *)
(* path, with the same content; it makes nothing else there but the        *)
(* directories above the members.                                          *)
C16_EveryMemberCopied ==
    (spc \in {"chmod", "done"} /\ given = <<>>)
    => /\ DOMAIN directory = StagedNames \cup StagedAncestors
       /\ \A n \in StagedNames :
             /\ directory[n].kind = Staged(n).kind
             /\ directory[n].kind \in {"file", "link"}
                => directory[n].data = Staged(n).data

\* A directory with an empty directory, a file and a link to a directory
\* has been staged
C16_Witness ==
    /\ StagedIntoEmpty
    /\ subject.tree.kind = "dir"
    /\ {"a", "d", "l"} \subseteq DOMAIN directory
    /\ Staged("d").kind = "dir"
    /\ Staged("l").to = "dir"

(* C20: a directory above a staged member is chmod-ed only after it was    *)
(* found to be a real directory and no symbolic link; when it is not,      *)
(* stage ends with the assertion error, the loop unfinished and that path  *)
(* not chmod-ed; and stage never ends so on a destination that was empty.  *)
C20_AncestorsAsserted ==
    /\ \A n \in chmoded : directory[n].kind # "link"
    /\ (spc = "chmod" /\ files # <<>>
          /\ \E i \in DOMAIN Ancestors(Head(files)) :
                directory[Ancestors(Head(files))[i]].kind = "link")
       => ENABLED (StageChmod /\ sres' = "AssertionError"
                     /\ chmoded' = chmoded /\ directory' = directory)
    /\ sres = "AssertionError" => (spc = "done" /\ files # <<>>)
    /\ given = <<>> => sres # "AssertionError"

\* stage has ended with the assertion error on a destination whose d is a
\* symbolic link, after it had set the mode of another member
C20_Witness ==
    /\ sres = "AssertionError"
    /\ directory["d"].kind = "link"
    /\ "a" \in chmoded

----------------------------------------------------------------------------
\* The tree stage has put into the destination
StagedTree ==
    IF subject.tree.kind = "dir" THEN Dir(directory)
    ELSE directory[Basename(subject.path)]

(* C21: for a source that is CACHED with ref D, the tree stage puts into   *)
(* the destination has digest D, also when the subject was changed after   *)
(* the fetch that made the entry for D.                                    *)
(* The code does not keep this: stage copies the subject from where it     *)
(* lives in the project, not the entry of the mirror directory.            *)
C21_StagedTreeHasDeclaredDigest ==
    (spc = "done" /\ sres = "ok" /\ "ref" \in DOMAIN subject)
    => GenerateRef(subject.path, StagedTree) = subject.ref

----------------------------------------------------------------------------
(* C22: a fetch whose digest differs from the declared ref changes neither *)
(* what get_consistency answers nor the entry under the declared ref:      *)
(* every step of such a call leaves the answer as it was, and the only     *)
(* name it adds to the mirror directory is the digest it computed.         *)
C22_FailedFetchKeepsConsistency ==
    [][\A p \in Procs :
          (op[p] = "fetch" /\ pc[p] \in InCall /\ pc'[p] # pc[p]
             /\ (sha[p] = None \/ sha[p] # ref[p]))
          => /\ ref'[p] = ref[p]
             /\ GetConsistency(ref'[p], DOMAIN mirror')
                   = GetConsistency(ref[p], DOMAIN mirror)
             /\ \A n \in DOMAIN mirror' \ DOMAIN mirror :
                   n = sha[p] /\ n # ref[p]
             /\ pc'[p] = "done" /\ result'[p] = "SourceError"
                => sha'[p] # ref[p]]_vars

\* A fetch has failed with the mismatch, having put an entry under the
\* digest it computed, and there is none under the declared ref
C22_Witness ==
    \E p \in Procs :
        /\ Finished(p) /\ op[p] = "fetch" /\ result[p] = "SourceError"
        /\ touched[p]
        /\ Exists(sha[p])
        /\ ~Exists(ref[p])

----------------------------------------------------------------------------
\* assemble is running or has returned
Assembling == tpc \in {"tar", "hash", "write", "done"}

(* C23: configure lets only the compressions none, gzip, xz and bzip2      *)
(* through and preflight only the checksums sha1, sha256, sha512 and md5,  *)
(* each raising ElementError otherwise; so in assemble no lookup in the    *)
(* compression, extension and hash maps fails, every checksum is computed  *)
(* over the closed tarball, and when assemble has returned exactly one     *)
(* side file was written for each distinct requested checksum.             *)
C23_AssembleLookupsSucceed ==
    /\ tpc \notin {"new", "failed"}
       => compression \in {"none", "gzip", "xz", "bzip2"}
    /\ (tpc = "preflighted" \/ Assembling)
       => \A i \in DOMAIN include_checksums :
             include_checksums[i] \in {"sha1", "sha256", "sha512", "md5"}
    /\ tpc = "failed" => (terr = "ElementError" /\ tarball = "absent")
    /\ \A t \in DOMAIN hashes : hashes[t] = "closed"
    /\ tpc = "done"
       => /\ tarball = "closed"
          /\ DOMAIN written = { include_checksums[i] : i \in DOMAIN include_checksums }
          /\ \A t \in DOMAIN written : written[t] = 1

\* assemble has returned for an element that asks for the same checksum
\* twice
C23_Witness ==
    /\ tpc = "done"
    /\ Len(include_checksums) = 2
    /\ include_checksums[1] = include_checksums[2]
    /\ compression = "bzip2"

====
